---- MODULE Spec2Model ----
(***************************************************************************)
(* Model of the vocabulary trainer in src/app.py (a Streamlit script).     *)
(*                                                                         *)
(* The script runs top to bottom once per interaction.  A button handler   *)
(* that ends in st.rerun() is followed at once by a second pass of the     *)
(* script; one action of this model is one interaction: the handler and    *)
(* the pass of the script that st.rerun() starts.  Between interactions    *)
(* the state is the one the last pass left behind.  The pass that delivers *)
(* the click repeats the top of the script on the state the previous pass  *)
(* left, which changes nothing, so it is not modelled a second time.       *)
(*                                                                         *)
(* Text is a sequence of one-character strings.  A data frame is a         *)
(* sequence of rows, each carrying its pandas index label; a deck file is  *)
(* a sequence of rows without labels (to_csv(index=False)).  The field     *)
(* 'word' stands for the column Deutsch and the other text columns of a    *)
(* row.                                                                    *)
(***************************************************************************)
EXTENDS Integers, Sequences, FiniteSets

VARIABLES
    config_file,            \* modules.json on disk
    files,                  \* the deck files on disk, by file name
    current_dataset_name,   \* st.session_state.current_dataset_name
    vocab_df,               \* st.session_state.vocab_df
    loaded_file,            \* st.session_state.loaded_file
    history,                \* st.session_state.history
    current_idx,            \* st.session_state.current_idx
    show_solution,          \* st.session_state.show_solution
    row,                    \* the row the last pass read for display
    message,                \* the st.error or st.toast text on display after
                            \* the last interaction, "" when there is none
                            \* (st.rerun() wipes an st.success text)
    nav_shown,              \* the displayed indices not yet gone back from
    sentence,               \* argument of hide_term_in_sentence
    term,                   \* argument of hide_term_in_sentence
    masked,                 \* its result, NotMasked before the call
    gap_row,                \* the text columns of the row tab3 reads
    is_b2_mode,             \* line 182, for that row
    effects                 \* what the last interaction did: the files it
                            \* wrote, in order, and how often it changed the
                            \* frame

vars == <<config_file, files, current_dataset_name, vocab_df, loaded_file,
          history, current_idx, show_solution, row, message, nav_shown,
          sentence, term, masked, gap_row, is_b2_mode, effects>>

mask_vars == <<sentence, term, masked, gap_row, is_b2_mode>>

-----------------------------------------------------------------------------
(* Bounds *)

MaxLabel == 0       \* largest label of a row added to the deck vokabeln.csv
MaxNewLabel == 0    \* largest label of a row added to a deck created here
MaxHist == 2        \* cap on the length of the back stack
MaxSentenceLen == 4 \* longest sentence given to hide_term_in_sentence
MaxTermLen == 2     \* longest term given to hide_term_in_sentence
MaxTagLen == 3      \* longest text tried in the column Präposition

-----------------------------------------------------------------------------
(* Text *)

UpperCase == <<"A","B","C","D","E","F","G","H","I","J","K","L","M",
               "N","O","P","Q","R","S","T","U","V","W","X","Y","Z">>
LowerCase == <<"a","b","c","d","e","f","g","h","i","j","k","l","m",
               "n","o","p","q","r","s","t","u","v","w","x","y","z">>
Digits == {"0","1","2","3","4","5","6","7","8","9"}

Range(s) == {s[i] : i \in 1..Len(s)}

\* str.isalnum() of one character
IsAlnum(c) == c \in Range(UpperCase) \cup Range(LowerCase) \cup Digits

\* str.lower() of one character
LowerChar(c) ==
    IF c \in Range(UpperCase)
    THEN LowerCase[CHOOSE i \in 1..Len(UpperCase) : UpperCase[i] = c]
    ELSE c

\* str.lower()
Lower(s) == [i \in 1..Len(s) |-> LowerChar(s[i])]

StartModul == <<"S","t","a","r","t","-","M","o","d","u","l">>
DefaultFile == <<"v","o","k","a","b","e","l","n",".","c","s","v">>
CustomSuffix == <<"_","c","u","s","t","o","m",".","c","s","v">>

\* the file name without .lower()
SafeFilename_keepcase(name) == SelectSeq(name, IsAlnum) \o CustomSuffix

\* line 149: "".join([c for c in name if c.isalnum()]).lower() + "_custom.csv"
SafeFilename(name) == Lower(SelectSeq(name, IsAlnum)) \o CustomSuffix

NoName == <<"None">>    \* Python's None as a module name

\* str.isspace() of one character
IsSpace(c) == c = " "

\* str.strip()
Strip(s) ==
    LET kept == {i \in 1..Len(s) : ~IsSpace(s[i])}
    IN  IF kept = {} THEN <<>>
        ELSE SubSeq(s, CHOOSE i \in kept : \A j \in kept : i <= j,
                       CHOOSE i \in kept : \A j \in kept : j <= i)

\* s.split(sep)[0] for a separator of one character
SplitFirst(s, sep) ==
    LET at == {i \in 1..Len(s) : s[i] = sep}
    IN  IF at = {} THEN s
        ELSE SubSeq(s, 1, (CHOOSE i \in at : \A j \in at : i <= j) - 1)

-----------------------------------------------------------------------------
(* Masking *)

Placeholder == <<"_","_","_">>

\* the pattern compiled without re.IGNORECASE
SameLetter_exact(c, d) == c = d

\* re.IGNORECASE on one character
SameLetter(c, d) == LowerChar(c) = LowerChar(d)

\* the compiled pattern re.escape(term) matches s at position i
MatchAt(s, t, i) ==
    /\ i + Len(t) - 1 <= Len(s)
    /\ \A k \in 1..Len(t) : SameLetter(s[i + k - 1], t[k])

\* pattern.sub("___", s): the matches are taken from left to right and do
\* not overlap
RECURSIVE PatternSub(_, _)
PatternSub(s, t) ==
    IF Len(s) < Len(t) THEN s
    ELSE IF MatchAt(s, t, 1)
    THEN Placeholder \o PatternSub(SubSeq(s, Len(t) + 1, Len(s)), t)
    ELSE <<s[1]>> \o PatternSub(Tail(s), t)

\* the function without line 75: the empty pattern matches before every
\* character and at the end
hide_term_in_sentence_noguard(s, t) ==
    IF t = <<>>
    THEN [i \in 1..(3 + 4 * Len(s)) |-> IF i % 4 = 0 THEN s[i \div 4] ELSE "_"]
    ELSE PatternSub(s, t)

\* lines 74-77
hide_term_in_sentence(s, t) ==
    IF s = <<>> \/ t = <<>> THEN s ELSE PatternSub(s, t)

-----------------------------------------------------------------------------
(* Deck files and data frames *)

AbsentFile == [kind |-> "absent", hasStatus |-> FALSE, rows |-> <<>>]
\* a file pandas cannot parse (no columns), e.g. an empty file
UnparsableFile == [kind |-> "unparsable", hasStatus |-> FALSE, rows |-> <<>>]
TableFile(hs, rs) == [kind |-> "table", hasStatus |-> hs, rows |-> rs]

\* pd.DataFrame(): no columns, no rows
NoFrame == [cols |-> FALSE, rows |-> <<>>]

FileRow(w, s) == [word |-> w, status |-> s]
FrameRow(l, w, s) == [label |-> l, word |-> w, status |-> s]

\* df.empty
Empty(df) == df.rows = <<>>

\* df.index
Index(df) == [i \in 1..Len(df.rows) |-> df.rows[i].label]
Labels(df) == {df.rows[i].label : i \in 1..Len(df.rows)}

\* position of the row with label l
PosOf(df, l) == CHOOSE i \in 1..Len(df.rows) : df.rows[i].label = l

\* lines 31-39: a CSV with the nine column names and no rows
create_new_module_file == TableFile(TRUE, <<>>)

\* lines 41-55: a missing file and a file that fails to parse give an empty
\* frame; a missing Status column is filled with "Neutral"; an empty cell
\* becomes "" (fillna); the rows get the labels 0, 1, ...
load_data(f) ==
    IF f.kind # "table" THEN NoFrame
    ELSE [cols |-> TRUE,
          rows |-> [i \in 1..Len(f.rows) |->
                      FrameRow(i - 1, f.rows[i].word,
                               IF f.hasStatus THEN f.rows[i].status
                                              ELSE "Neutral")]]

\* lines 57-58: df.to_csv(filename, index=False); a frame without columns
\* leaves a file without a header, which read_csv cannot parse
save_data(df) ==
    IF df.cols
    THEN TableFile(TRUE, [i \in 1..Len(df.rows) |->
                            FileRow(df.rows[i].word, df.rows[i].status)])
    ELSE UnparsableFile

\* the status written to the whole column: df['Status'] = status
SetStatus_column(df, index, status) ==
    [df EXCEPT !.rows = [i \in 1..Len(df.rows) |->
                           [df.rows[i] EXCEPT !.status = status]]]

\* line 61: df.at[index, 'Status'] = status; .at with a label that is not in
\* the index appends a row with that label and empty cells
SetStatus(df, index, status) ==
    IF index \in Labels(df)
    THEN [df EXCEPT !.rows[PosOf(df, index)].status = status]
    ELSE [df EXCEPT !.rows = Append(@, FrameRow(index, "", status))]

-----------------------------------------------------------------------------
(* Selection *)

\* the weights as whole numbers: 0.2 truncated to 0
Weight_truncated(s) == IF s = "Red" THEN 100 ELSE IF s = "Green" THEN 0 ELSE 20

\* line 67, in tenths: 10 if Red, 0.2 if Green, 2 otherwise
Weight(s) == IF s = "Red" THEN 100 ELSE IF s = "Green" THEN 2 ELSE 20

RECURSIVE TotalWeight(_)
TotalWeight(rs) ==
    IF rs = <<>> THEN 0 ELSE Weight(Head(rs).status) + TotalWeight(Tail(rs))

\* lines 65-72: the set of values get_weighted_random_index can return.
\* random.choices draws a label whose weight is positive; it raises when
\* the weights sum to zero, and the except branch returns 0.
get_weighted_random_index(df) ==
    IF Empty(df) THEN {0}
    ELSE IF TotalWeight(df.rows) <= 0 THEN {0}
    ELSE {df.rows[i].label :
            i \in {j \in 1..Len(df.rows) : Weight(df.rows[j].status) > 0}}

-----------------------------------------------------------------------------
(* Module registry *)

NoConfig == [exists |-> FALSE, entries |-> <<>>]
Config(es) == [exists |-> TRUE, entries |-> es]
Entry(n, f) == [name |-> n, file |-> f]

\* line 10
CONFIG_FILE == <<"m","o","d","u","l","e","s",".","j","s","o","n">>

\* load_module_config writing the registry on every call
load_module_config_writes_always(cfg) == <<CONFIG_FILE>>

\* lines 16-20: the files load_module_config writes
load_module_config_writes(cfg) == IF cfg.exists THEN <<>> ELSE <<CONFIG_FILE>>

\* lines 14-24: the registry after load_module_config, which writes the
\* default registry when the file is missing
load_module_config(cfg) ==
    IF cfg.exists THEN cfg
    ELSE Config(<<Entry(StartModul, DefaultFile)>>)

ModuleNames(modules) == {modules[i].name : i \in 1..Len(modules)}

\* modules.get(name, "vokabeln.csv")
ModulesGet(modules, name) ==
    IF name \in ModuleNames(modules)
    THEN modules[CHOOSE i \in 1..Len(modules) : modules[i].name = name].file
    ELSE DefaultFile

\* lines 87-88
FirstKey(modules) == IF modules # <<>> THEN modules[1].name ELSE NoName

-----------------------------------------------------------------------------
(* Inputs *)

MeinModul == <<"M","e","i","n"," ","M","o","d","u","l","!">>

\* what the learner may type into the form "Neues Modul erstellen"
NameInputs == {<<>>, <<"A","!">>, <<"a">>}

\* every deck file the model can touch
AllFiles == {DefaultFile} \cup {SafeFilename(n) : n \in NameInputs}

\* what the learner may type into a Status cell of the data editor
TypedStatus == {""}

\* the deck file vokabeln.csv found at the first start
InitDeckFiles ==
    { AbsentFile,
      UnparsableFile,
      TableFile(FALSE, <<FileRow("Hund", ""), FileRow("Katze", "")>>),
      TableFile(TRUE, <<FileRow("Hund", ""), FileRow("Katze", "Blau")>>) }

\* the letters of the sentences and terms given to hide_term_in_sentence
MaskLetters == {"a", "A", "b", "_"}

SeqsUpTo(S, n) == UNION {[1..k -> S] : k \in 0..n}

\* the registry file found at the first start
InitConfigs == {NoConfig}

\* the columns Deutsch, Präposition and Beispielsatz of a row
GapRow(d, p, b) == [Deutsch |-> d, Praeposition |-> p, Beispielsatz |-> b]
NoGapRow == GapRow(<<>>, <<>>, <<>>)

\* the row of the example: "denken", "an/auf + Dativ", "Ich denke an dich."
DenkenRow ==
    GapRow(<<"d","e","n","k","e","n">>,
           <<"a","n","/","a","u","f"," ","+"," ","D","a","t","i","v">>,
           <<"I","c","h"," ","d","e","n","k","e"," ","a","n"," ",
             "d","i","c","h",".">>)

\* the characters tried in the column Präposition
TagLetters == {"a", "+", "/", " "}

\* the rows tab3 is run on
GapRows ==
    {DenkenRow}
    \cup { GapRow(d, p, b) :
             d \in {<<"a">>, <<"b">>},
             p \in SeqsUpTo(TagLetters, MaxTagLen),
             b \in {<<>>, <<"B"," ","a"," ","b">>} }

-----------------------------------------------------------------------------
(* One pass of the script *)

DummyRow == [kind |-> "dummy", label |-> 0]

\* the main area without the stale index check of lines 175-176
MainArea_unchecked(df, idx) ==
    IF Empty(df)
    THEN [current_idx |-> idx, row |-> DummyRow]
    ELSE [current_idx |-> idx,
          row |-> IF idx \in Labels(df)
                  THEN [kind |-> "row", label |-> idx]
                  ELSE [kind |-> "KeyError", label |-> idx]]

\* the main area without the df.empty test of line 168: df.index[0] raises
\* on an empty frame
MainArea_noempty(df, idx) ==
    IF Empty(df)
    THEN [current_idx |-> idx, row |-> [kind |-> "IndexError", label |-> idx]]
    ELSE LET i == IF idx \notin Labels(df) THEN Index(df)[1] ELSE idx
         IN  [current_idx |-> i, row |-> [kind |-> "row", label |-> i]]

\* lines 167-179: the stale index check and the row read for display
MainArea(df, idx) ==
    IF Empty(df)
    THEN [current_idx |-> idx, row |-> DummyRow]
    ELSE LET i == IF idx \notin Labels(df) THEN Index(df)[1] ELSE idx
         IN  [current_idx |-> i,
              row |-> IF i \in Labels(df)
                      THEN [kind |-> "row", label |-> i]
                      ELSE [kind |-> "KeyError", label |-> i]]

\* lines 82-105 and 165-179: the session states one pass of the script can
\* leave, from the disk and the session state it finds.  fresh says that
\* st.session_state is still empty (first pass).
Pass(cfg, fls, fresh, cdn, df, lf, hist, idx, sol) ==
    LET cfg1 == load_module_config(cfg)
        modules == cfg1.entries
        name == IF fresh THEN FirstKey(modules) ELSE cdn
        current_file == ModulesGet(modules, name)
        reload == fresh \/ lf # current_file
        df1 == IF reload THEN load_data(fls[current_file]) ELSE df
        picks == IF ~reload THEN {idx}
                 ELSE IF ~Empty(df1) THEN get_weighted_random_index(df1)
                 ELSE {0}
    IN  { [config_file |-> cfg1,
           current_dataset_name |-> name,
           vocab_df |-> df1,
           loaded_file |-> current_file,
           history |-> IF reload THEN <<>> ELSE hist,
           current_idx |-> MainArea(df1, i).current_idx,
           show_solution |-> IF reload THEN FALSE ELSE sol,
           row |-> MainArea(df1, i).row,
           reloaded |-> reload,
           written |-> load_module_config_writes(cfg)] : i \in picks }

\* the session state a pass leaves becomes the next state
Commit(s) ==
    /\ config_file' = s.config_file
    /\ current_dataset_name' = s.current_dataset_name
    /\ vocab_df' = s.vocab_df
    /\ loaded_file' = s.loaded_file
    /\ history' = s.history
    /\ current_idx' = s.current_idx
    /\ show_solution' = s.show_solution
    /\ row' = s.row
    /\ UNCHANGED mask_vars

\* the files written and the changes of the frame made by a handler followed
\* by the pass that left s: the pass changes the frame when it loads the deck
\* (line 95)
Effects(written, mutations, s) ==
    [written |-> written \o s.written,
     mutations |-> mutations + IF s.reloaded THEN 1 ELSE 0]

NoEffects == [written |-> <<>>, mutations |-> 0]

\* bookkeeping of the indices displayed since the history was last empty:
\* a pass that leaves an empty history (other than by prev_card) starts a
\* record with the index it displays, next_card adds the index it displays,
\* prev_card drops the last one, an edit of the deck ends the record (<<>>)
Track(s, op) ==
    IF s.reloaded \/ (s.history = <<>> /\ (op # "back" \/ nav_shown = <<>>))
    THEN nav_shown' = <<s.current_idx>>
    ELSE IF nav_shown = <<>> \/ op = "save"
    THEN nav_shown' = <<>>
    ELSE IF op = "next"
    THEN nav_shown' = Append(nav_shown, s.current_idx)
    ELSE IF op = "back"
    THEN nav_shown' = SubSeq(nav_shown, 1, Len(nav_shown) - 1)
    ELSE nav_shown' = nav_shown

\* line 91, on the state the last pass left
CurrentFile == ModulesGet(config_file.entries, current_dataset_name)

is_empty_mode == row.kind = "dummy"

-----------------------------------------------------------------------------
(* First start: the first pass of the script on an empty session state *)

Init ==
    \E cfg \in InitConfigs, f \in InitDeckFiles :
      LET fls == [n \in AllFiles |-> IF n = DefaultFile THEN f ELSE AbsentFile]
      IN  \E s \in Pass(cfg, fls, TRUE, NoName, NoFrame, NoName, <<>>, 0, FALSE) :
            /\ files = fls
            /\ config_file = s.config_file
            /\ current_dataset_name = s.current_dataset_name
            /\ vocab_df = s.vocab_df
            /\ loaded_file = s.loaded_file
            /\ history = s.history
            /\ current_idx = s.current_idx
            /\ show_solution = s.show_solution
            /\ row = s.row
            /\ message = ""
            /\ nav_shown = <<s.current_idx>>
            /\ sentence = <<>>
            /\ term = <<>>
            /\ masked = <<>>
            /\ gap_row = NoGapRow
            /\ is_b2_mode = FALSE
            /\ effects = Effects(<<>>, 0, s)

-----------------------------------------------------------------------------
(* Handlers *)

\* lines 108-114
next_card(df, hist, idx) ==
    { [history |-> Append(hist, idx),
       current_idx |-> i,
       show_solution |-> FALSE] :
         i \in IF ~Empty(df) THEN get_weighted_random_index(df) ELSE {idx} }

\* prev_card taking the oldest entry of the history: history.pop(0)
prev_card_fifo(hist, idx, sol) ==
    IF hist # <<>>
    THEN [history |-> Tail(hist),
          current_idx |-> hist[1],
          show_solution |-> FALSE]
    ELSE [history |-> hist, current_idx |-> idx, show_solution |-> sol]

\* lines 116-119
prev_card(hist, idx, sol) ==
    IF hist # <<>>
    THEN [history |-> SubSeq(hist, 1, Len(hist) - 1),
          current_idx |-> hist[Len(hist)],
          show_solution |-> FALSE]
    ELSE [history |-> hist, current_idx |-> idx, show_solution |-> sol]

\* line 63: st.toast(f"Status gespeichert: {status}")
Toast(status) == IF status = "Red" THEN "Status gespeichert: Red"
                 ELSE "Status gespeichert: Green"

\* update_status without save_data
update_status_unsaved(df, index, status, fls, filename) ==
    [vocab_df |-> SetStatus(df, index, status), files |-> fls]

\* lines 60-63: the frame and the disk after update_status
update_status(df, index, status, fls, filename) ==
    LET df1 == SetStatus(df, index, status)
    IN  [vocab_df |-> df1,
         files |-> [fls EXCEPT ![filename] = save_data(df1)]]

\* line 145: new_mod_name in modules
NameExists(name, modules) == name \in ModuleNames(modules)

\* the form creating the file before it looks the name up
new_module_form_eager(new_mod_name, cfg, fls, cdn) ==
    IF new_mod_name = <<>>
    THEN [files |-> fls, config_file |-> cfg, current_dataset_name |-> cdn,
          message |-> "", rerun |-> FALSE]
    ELSE LET safe_filename == SafeFilename(new_mod_name)
             created == [fls EXCEPT ![safe_filename] = create_new_module_file]
         IN  IF NameExists(new_mod_name, cfg.entries)
             THEN [files |-> created, config_file |-> cfg,
                   current_dataset_name |-> cdn,
                   message |-> "Name existiert schon!", rerun |-> FALSE]
             ELSE [files |-> created,
                   config_file |-> Config(Append(cfg.entries,
                                                 Entry(new_mod_name, safe_filename))),
                   current_dataset_name |-> new_mod_name,
                   message |-> "",
                   rerun |-> TRUE]

\* lines 144-161: what submitting the form with new_mod_name does to the
\* disk and to the active module, the message it leaves and whether it ends
\* in st.rerun()
new_module_form(new_mod_name, cfg, fls, cdn) ==
    IF new_mod_name = <<>>
    THEN [files |-> fls, config_file |-> cfg, current_dataset_name |-> cdn,
          message |-> "", rerun |-> FALSE]
    ELSE IF NameExists(new_mod_name, cfg.entries)
    THEN [files |-> fls, config_file |-> cfg, current_dataset_name |-> cdn,
          message |-> "Name existiert schon!", rerun |-> FALSE]
    ELSE LET safe_filename == SafeFilename(new_mod_name)
         IN  [files |-> [fls EXCEPT ![safe_filename] = create_new_module_file],
              config_file |-> Config(Append(cfg.entries,
                                            Entry(new_mod_name, safe_filename))),
              current_dataset_name |-> new_mod_name,
              message |-> "",
              rerun |-> TRUE]

\* lines 152 and 156: the files the form writes, in order
new_module_form_writes(new_mod_name, cfg) ==
    IF new_mod_name = <<>> \/ NameExists(new_mod_name, cfg.entries)
    THEN <<>>
    ELSE <<SafeFilename(new_mod_name), CONFIG_FILE>>

\* line 335: the frames st.data_editor(df, num_rows="dynamic") can return
\* after fillna(""): the frame as it is, one row deleted (the other rows keep
\* their labels), one Status cell retyped, or one row added below (its
\* Status cell left empty) while its label stays within max_label
DataEditor(df, max_label) ==
    IF ~df.cols THEN {df}
    ELSE LET n == Len(df.rows)
             next_label == IF n = 0 THEN 0
                           ELSE 1 + CHOOSE l \in Labels(df) :
                                      \A k \in Labels(df) : k <= l
         IN  {df}
             \cup { [df EXCEPT !.rows = SubSeq(df.rows, 1, p - 1)
                                        \o SubSeq(df.rows, p + 1, n)] :
                      p \in 1..n }
             \cup { [df EXCEPT !.rows[p].status = st] :
                      p \in 1..n, st \in TypedStatus }
             \cup { [df EXCEPT !.rows = Append(df.rows,
                                               FrameRow(next_label, "Neu", ""))] :
                      x \in IF next_label <= max_label THEN {0} ELSE {} }

-----------------------------------------------------------------------------
(* Interactions *)

\* lines 128-134: a module button in the sidebar
SelectModule ==
    \E m \in ModuleNames(config_file.entries) :
    \E s \in Pass(config_file, files, FALSE, m, vocab_df, loaded_file,
                  history, current_idx, show_solution) :
        /\ Commit(s)
        /\ Track(s, "btn")
        /\ effects' = Effects(<<>>, 0, s)
        /\ files' = files
        /\ message' = ""

\* the form "Neues Modul erstellen" submitted with new_mod_name: the pass
\* of the script that follows when the handler ends in st.rerun(), else the
\* handler's effects alone
SubmitNewModule(new_mod_name) ==
    LET f == new_module_form(new_mod_name, config_file, files, current_dataset_name)
        w == new_module_form_writes(new_mod_name, config_file)
    IN  IF f.rerun
        THEN \E s \in Pass(f.config_file, f.files, FALSE, f.current_dataset_name,
                           vocab_df, loaded_file, history, current_idx,
                           show_solution) :
               /\ Commit(s)
               /\ Track(s, "new_module_form")
               /\ effects' = Effects(w, 0, s)
               /\ files' = f.files
               /\ message' = f.message
        ELSE /\ config_file' = f.config_file
             /\ files' = f.files
             /\ current_dataset_name' = f.current_dataset_name
             /\ message' = f.message
             /\ effects' = [written |-> w, mutations |-> 0]
             /\ UNCHANGED <<vocab_df, loaded_file, history, current_idx,
                            show_solution, row, nav_shown, mask_vars>>

\* line 144: the form submitted with an empty name does nothing
NewModuleBlank == SubmitNewModule(<<>>)

\* lines 145-146: "Name existiert schon!", no rerun
NewModuleDuplicate ==
    \E name \in NameInputs \ {<<>>} :
        /\ name \in ModuleNames(config_file.entries)
        /\ SubmitNewModule(name)

\* lines 147-161: the module is created and becomes the active module
NewModuleCreate ==
    \E name \in NameInputs \ {<<>>} :
        /\ name \notin ModuleNames(config_file.entries)
        /\ SubmitNewModule(name)

\* lines 219-224, 268-273, 314-319: the buttons "Schwer" and "Einfach"
RecordReview ==
    \E status \in {"Red", "Green"} :
        /\ ~is_empty_mode
        /\ show_solution
        /\ LET u == update_status(vocab_df, current_idx, status, files, CurrentFile)
           IN  \E s \in Pass(config_file, u.files, FALSE, current_dataset_name,
                             u.vocab_df, loaded_file, history, current_idx,
                             show_solution) :
                 /\ Commit(s)
                 /\ Track(s, "review")
                 /\ effects' = Effects(<<CurrentFile>>, 1, s)
                 /\ files' = u.files
                 /\ message' = Toast(status)

\* lines 230-232, 304-306: "Lösung zeigen" and "Aufdecken"
ShowSolution ==
    /\ ~is_empty_mode
    /\ \E s \in Pass(config_file, files, FALSE, current_dataset_name, vocab_df,
                     loaded_file, history, current_idx, TRUE) :
         /\ Commit(s)
         /\ Track(s, "sol")
         /\ effects' = Effects(<<>>, 0, s)
         /\ files' = files
         /\ message' = ""

\* lines 251-256: the form "Prüfen" shows the solution in the same pass
WriteFormSubmit ==
    /\ ~is_empty_mode
    /\ show_solution' = TRUE
    /\ message' = ""
    /\ effects' = NoEffects
    /\ UNCHANGED <<config_file, files, current_dataset_name, vocab_df,
                   loaded_file, history, current_idx, row, nav_shown, mask_vars>>

\* lines 239-241, 280-282, 326-328: "Nächste Karte"
NextCard ==
    /\ ~is_empty_mode
    /\ Len(history) < MaxHist
    /\ \E n \in next_card(vocab_df, history, current_idx) :
       \E s \in Pass(config_file, files, FALSE, current_dataset_name, vocab_df,
                     loaded_file, n.history, n.current_idx, n.show_solution) :
         /\ Commit(s)
         /\ Track(s, "next")
         /\ effects' = Effects(<<>>, 0, s)
         /\ files' = files
         /\ message' = ""

\* lines 236-238, 277-279, 323-325: "Zurück", disabled while the history is
\* empty
PrevCard ==
    /\ ~is_empty_mode
    /\ history # <<>>
    /\ LET b == prev_card(history, current_idx, show_solution)
       IN  \E s \in Pass(config_file, files, FALSE, current_dataset_name, vocab_df,
                         loaded_file, b.history, b.current_idx, b.show_solution) :
             /\ Commit(s)
             /\ Track(s, "back")
             /\ effects' = Effects(<<>>, 0, s)
             /\ files' = files
             /\ message' = ""

\* lines 335-343: "Liste Speichern"
BulkSave ==
    \E edited_df \in DataEditor(vocab_df, IF CurrentFile = DefaultFile
                                            THEN MaxLabel ELSE MaxNewLabel) :
    LET fls == [files EXCEPT ![CurrentFile] = save_data(edited_df)]
    IN  \E s \in Pass(config_file, fls, FALSE, current_dataset_name, edited_df,
                      loaded_file, history, current_idx, show_solution) :
          /\ Commit(s)
          /\ Track(s, "save")
          /\ effects' = Effects(<<CurrentFile>>, 1, s)
          /\ files' = fls
          /\ message' = ""

Next ==
    \/ SelectModule
    \/ NewModuleBlank
    \/ NewModuleDuplicate
    \/ NewModuleCreate
    \/ RecordReview
    \/ ShowSolution
    \/ WriteFormSubmit
    \/ NextCard
    \/ PrevCard
    \/ BulkSave

Spec == Init /\ [][Next]_vars

-----------------------------------------------------------------------------
(* hide_term_in_sentence on its own: every sentence and term within the    *)
(* bounds, the trainer not started                                         *)

NotMasked == <<"?">>

InitMask ==
    /\ sentence \in SeqsUpTo(MaskLetters, MaxSentenceLen)
    /\ term \in SeqsUpTo(MaskLetters, MaxTermLen)
    /\ masked = NotMasked
    /\ gap_row = NoGapRow
    /\ is_b2_mode = FALSE
    /\ effects = NoEffects
    /\ config_file = NoConfig
    /\ files = [n \in AllFiles |-> AbsentFile]
    /\ current_dataset_name = NoName
    /\ vocab_df = NoFrame
    /\ loaded_file = NoName
    /\ history = <<>>
    /\ current_idx = 0
    /\ show_solution = FALSE
    /\ row = DummyRow
    /\ message = ""
    /\ nav_shown = <<>>

HideTerm ==
    /\ masked = NotMasked
    /\ masked' = hide_term_in_sentence(sentence, term)
    /\ UNCHANGED <<config_file, files, current_dataset_name, vocab_df,
                   loaded_file, history, current_idx, show_solution, row,
                   message, nav_shown, sentence, term, gap_row, is_b2_mode,
                   effects>>

NextMask == HideTerm

SpecMask == InitMask /\ [][NextMask]_vars

-----------------------------------------------------------------------------
(* Tab "Lückentext" on its own: passes of the script over rows of every     *)
(* kind, in any order                                                       *)

\* line 182: "Präposition" in row and str(row['Präposition']).strip() != "";
\* load_data gives every row of a deck that is not empty the column
ModeOf(r) == Strip(r.Praeposition) # <<>>

\* the preposition cut at "+" only
term_to_hide_plus_only(r, b2) ==
    IF b2 THEN Strip(SplitFirst(r.Praeposition, "+")) ELSE r.Deutsch

\* lines 293-297
term_to_hide(r, b2) ==
    IF b2 THEN Strip(SplitFirst(SplitFirst(r.Praeposition, "+"), "/"))
    ELSE r.Deutsch

InitGap ==
    /\ gap_row = NoGapRow
    /\ is_b2_mode = FALSE
    /\ effects = NoEffects
    /\ sentence = <<>>
    /\ term = <<>>
    /\ masked = NotMasked
    /\ config_file = NoConfig
    /\ files = [n \in AllFiles |-> AbsentFile]
    /\ current_dataset_name = NoName
    /\ vocab_df = NoFrame
    /\ loaded_file = NoName
    /\ history = <<>>
    /\ current_idx = 0
    /\ show_solution = FALSE
    /\ row = DummyRow
    /\ message = ""
    /\ nav_shown = <<>>

\* lines 182 and 288-301: a pass that displays a row with an example sentence
GapText ==
    \E r \in GapRows :
        /\ r.Beispielsatz # <<>>
        /\ gap_row' = r
        /\ is_b2_mode' = ModeOf(r)
        /\ sentence' = r.Beispielsatz
        /\ term' = term_to_hide(r, ModeOf(r))
        /\ masked' = hide_term_in_sentence(r.Beispielsatz,
                                           term_to_hide(r, ModeOf(r)))
        /\ UNCHANGED <<config_file, files, current_dataset_name, vocab_df,
                       loaded_file, history, current_idx, show_solution, row,
                       message, nav_shown, effects>>

\* lines 182 and 286-287: a row without an example sentence, "Keine
\* Beispielsätze verfügbar."
GapNoSentence ==
    \E r \in GapRows :
        /\ r.Beispielsatz = <<>>
        /\ gap_row' = r
        /\ is_b2_mode' = ModeOf(r)
        /\ sentence' = <<>>
        /\ term' = <<>>
        /\ masked' = NotMasked
        /\ UNCHANGED <<config_file, files, current_dataset_name, vocab_df,
                       loaded_file, history, current_idx, show_solution, row,
                       message, nav_shown, effects>>

NextGap == GapText \/ GapNoSentence

SpecGap == InitGap /\ [][NextGap]_vars

-----------------------------------------------------------------------------
(* Properties *)

Last(q) == q[Len(q)]
Front(q) == SubSeq(q, 1, Len(q) - 1)
Statuses(df) == {df.rows[i].status : i \in 1..Len(df.rows)}
StatusAt(df, l) == df.rows[PosOf(df, l)].status

\* the pass kept the session: neither the active module nor the registry
\* changed
SameModule ==
    /\ current_dataset_name' = current_dataset_name
    /\ config_file' = config_file

\* C1: while the deck is not edited, the index on display is the last of the
\* indices displayed since the history was empty and the history holds the
\* ones before it, in order, so each prev_card() returns to the index
\* displayed before the matching next_card() and k of them after k
\* next_card() empty the history; prev_card() on an empty history changes
\* neither the index nor the history nor the solution flag.
C1_BackRestoresReverseOrder ==
    /\ nav_shown # <<>> =>
         /\ current_idx = Last(nav_shown)
         /\ history = Front(nav_shown)
    /\ prev_card(<<>>, current_idx, show_solution)
         = [history |-> <<>>, current_idx |-> current_idx,
            show_solution |-> show_solution]

\* two next_card() displayed three indices and prev_card() is about to
\* return to the middle one
C1_Witness ==
    /\ Len(nav_shown) = 3
    /\ nav_shown[2] # nav_shown[3]
    /\ prev_card(history, current_idx, show_solution).current_idx = nav_shown[2]
    /\ prev_card(history, current_idx, show_solution).history = <<nav_shown[1]>>

\* C2: an interaction that leaves the toast "Status gespeichert: <status>"
\* has set the status of the displayed row in the frame, and the deck file of
\* the active module, loaded again, shows that row with the new status.
C2_ReviewIsWrittenThrough ==
    [][\A status \in {"Red", "Green"} :
         message' = Toast(status) =>
           /\ row.kind = "row"
           /\ row.label = current_idx
           /\ current_idx \in Labels(vocab_df)
           /\ LET p == PosOf(vocab_df, current_idx)
                  reloaded == load_data(files'[ModulesGet(config_file'.entries,
                                                          current_dataset_name')])
              IN  /\ vocab_df'.rows[p].status = status
                  /\ Len(reloaded.rows) = Len(vocab_df.rows)
                  /\ reloaded.rows[p].status = status
                  /\ reloaded.rows[p].word = vocab_df.rows[p].word]_vars

\* a card rated "Schwer" whose file on disk shows the rating
C2_Witness ==
    /\ message = Toast("Red")
    /\ ~Empty(vocab_df)
    /\ StatusAt(vocab_df, current_idx) = "Red"
    /\ files[CurrentFile].rows[PosOf(vocab_df, current_idx)].status = "Red"

\* C3: every change of the active module name resets the session: empty
\* history, solution hidden, the deck loaded from the new module's file and
\* an index drawn for it (0 for an empty deck).
C3_ModuleChangeResetsSession ==
    [][current_dataset_name' # current_dataset_name =>
         /\ history' = <<>>
         /\ show_solution' = FALSE
         /\ vocab_df' = load_data(files'[ModulesGet(config_file'.entries,
                                                    current_dataset_name')])
         /\ current_idx' \in get_weighted_random_index(vocab_df')]_vars

\* C4: whenever the deck is not empty the row read for display is the row at
\* current_idx, which is a label of the frame; when the row current_idx
\* pointed to was deleted, or prev_card() popped the label of a deleted row,
\* current_idx is the first label of the frame after the pass.
C4_StaleIndexRepaired ==
    /\ [](~Empty(vocab_df) =>
            /\ row.kind = "row"
            /\ row.label = current_idx
            /\ current_idx \in Labels(vocab_df))
    /\ [][(/\ SameModule
           /\ ~Empty(vocab_df')
           /\ \/ /\ history' = history
                 /\ current_idx \notin Labels(vocab_df')
              \/ /\ history # <<>>
                 /\ history' = Front(history)
                 /\ Last(history) \notin Labels(vocab_df'))
          => current_idx' = Index(vocab_df')[1]]_vars

\* the row with label 0 was deleted while the history still names it, and
\* the first remaining row is on display
C4_Witness ==
    /\ ~Empty(vocab_df)
    /\ 0 \notin Labels(vocab_df)
    /\ 0 \in Range(history)
    /\ current_idx = Index(vocab_df)[1]
    /\ row = [kind |-> "row", label |-> current_idx]

\* C5: the status of every row of the frame is Neutral, Red or Green.
C5_StatusIsOneOfThree ==
    Statuses(vocab_df) \subseteq {"Neutral", "Red", "Green"}

\* C6: an interaction that leaves the error "Name existiert schon!" changes
\* neither the registry file nor a deck file nor the session.
C6_DuplicateNameChangesNothing ==
    [][message' = "Name existiert schon!" =>
         UNCHANGED <<config_file, files, current_dataset_name, vocab_df,
                     loaded_file, history, current_idx, show_solution,
                     row>>]_vars

\* the error is on display after the name of the active module "A!", whose
\* deck holds a card, was submitted again
C6_Witness ==
    /\ message = "Name existiert schon!"
    /\ current_dataset_name = <<"A","!">>
    /\ ~Empty(vocab_df)
    /\ history # <<>>

\* C7, the location the claim derives from a name: lower-case, drop what is
\* neither letter nor digit, append "_custom.csv"
ClaimedLocation(name) == SelectSeq(Lower(name), IsAlnum) \o CustomSuffix

MeinModulFile == <<"m","e","i","n","m","o","d","u","l">> \o CustomSuffix

\* C7: whenever the registry changes, one entry name -> ClaimedLocation(name)
\* was appended for a non-empty name that was not a key, the other entries
\* are as before, the file at that location holds the header and no rows,
\* no other deck file changed and the new module is the active one;
\* "Mein Modul!" is stored at "meinmodul_custom.csv".
C7_CreateAddsOneEntry ==
    [][config_file'.entries # config_file.entries =>
         /\ SafeFilename(MeinModul) = MeinModulFile
         /\ \E name \in NameInputs \ {<<>>} :
              /\ name \notin ModuleNames(config_file.entries)
              /\ config_file'.entries
                   = Append(config_file.entries,
                            Entry(name, ClaimedLocation(name)))
              /\ config_file'.exists
              /\ files'[ClaimedLocation(name)] = TableFile(TRUE, <<>>)
              /\ \A f \in AllFiles \ {ClaimedLocation(name)} : files'[f] = files[f]
              /\ current_dataset_name' = name]_vars

\* the module "A!" was created, is active and its file a_custom.csv is empty
C7_Witness ==
    /\ Len(config_file.entries) = 2
    /\ config_file.entries[2] = Entry(<<"A","!">>, <<"a">> \o CustomSuffix)
    /\ current_dataset_name = <<"A","!">>
    /\ files[<<"a">> \o CustomSuffix] = TableFile(TRUE, <<>>)
    /\ Empty(vocab_df)

\* C8: the weights are in the ratio 50 : 10 : 1, every row of the deck has a
\* positive weight and a row that is neither Red nor Green weighs like a
\* Neutral one; on a deck that is not empty the possible draws are exactly
\* the labels of the frame, whatever current_idx and history are, also for
\* the draw of next_card().
C8_EveryRowCanBeDrawn ==
    /\ Weight("Red") = 50 * Weight("Green")
    /\ Weight("Neutral") = 10 * Weight("Green")
    /\ \A st \in Statuses(vocab_df) :
         /\ Weight(st) > 0
         /\ st \notin {"Red", "Green"} => Weight(st) = Weight("Neutral")
    /\ ~Empty(vocab_df) =>
         /\ get_weighted_random_index(vocab_df) = Labels(vocab_df)
         /\ {n.current_idx : n \in next_card(vocab_df, history, current_idx)}
              = Labels(vocab_df)

\* next_card() drew the Green card that was on display again, from a deck of
\* two cards
C8_Witness ==
    /\ Len(vocab_df.rows) = 2
    /\ history # <<>>
    /\ current_idx = Last(history)
    /\ current_idx \in Labels(vocab_df)
    /\ StatusAt(vocab_df, current_idx) = "Green"

\* C9: the draw on an empty deck is 0; while the deck is empty the pass
\* reads no row of it and raises nothing.
C9_EmptyDeckIsHandled ==
    /\ get_weighted_random_index(NoFrame) = {0}
    /\ Empty(vocab_df) =>
         /\ get_weighted_random_index(vocab_df) = {0}
         /\ row = DummyRow

\* "Liste Speichern" on the empty deck of a module created here
C9_Witness ==
    /\ Empty(vocab_df)
    /\ vocab_df.cols
    /\ current_dataset_name # StartModul
    /\ Len(config_file.entries) = 3
    /\ row = DummyRow

\* the case-insensitive occurrences of t in s, as the claim counts them
OccursAt(s, t, i) ==
    /\ i + Len(t) - 1 <= Len(s)
    /\ Lower(SubSeq(s, i, i + Len(t) - 1)) = Lower(t)
Occurrences(s, t) == Cardinality({i \in 1..Len(s) : OccursAt(s, t, i)})

\* C10 as stated: for a non-empty term with exactly one case-insensitive
\* occurrence in the sentence, the masked sentence contains the placeholder
\* once and the term nowhere.
C10_MaskOneOccurrence ==
    (masked # NotMasked /\ term # <<>> /\ Occurrences(sentence, term) = 1) =>
        /\ Occurrences(masked, Placeholder) = 1
        /\ Occurrences(masked, term) = 0

\* C10 amended: the same for sentences without the underscore character.
C10_MaskOneOccurrenceNoUnderscore ==
    (/\ masked # NotMasked
     /\ term # <<>>
     /\ "_" \notin Range(sentence)
     /\ Occurrences(sentence, term) = 1) =>
        /\ Occurrences(masked, Placeholder) = 1
        /\ Occurrences(masked, term) = 0

\* "bAba" with the term "ab" is shown as "b___a"
C10_Witness ==
    /\ sentence = <<"b","A","b","a">>
    /\ term = <<"a","b">>
    /\ masked = <<"b","_","_","_","a">>

\* the tag is not empty after trimming: it holds a character that is not
\* a blank
TagPresent(tag) == \E i \in 1..Len(tag) : tag[i] # " "

Blanks(n) == [i \in 1..n |-> " "]

\* t is text h without the blanks at its ends
IsTrimOf(t, h) ==
    /\ t # <<>> => (t[1] # " " /\ t[Len(t)] # " ")
    /\ \E i, j \in 0..Len(h) : h = Blanks(i) \o t \o Blanks(j)

\* the text of the tag before the first "+" and before the first "/"
BeforeQualifier(tag) ==
    LET cut == {i \in 1..Len(tag) : tag[i] \in {"+", "/"}}
    IN  IF cut = {} THEN tag
        ELSE SubSeq(tag, 1, (CHOOSE i \in cut : \A j \in cut : i <= j) - 1)

An == <<"a","n">>
IchDenkeDich == <<"I","c","h"," ","d","e","n","k","e"," ","_","_","_"," ",
                  "d","i","c","h",".">>

C12_MaskEmptyArgument ==
    masked # NotMasked =>
        /\ term = <<>> => masked = sentence
        /\ sentence = <<>> => masked = <<>>

\* "a_A" masked with the empty term
C12_Witness ==
    /\ term = <<>>
    /\ sentence = <<"a","_","A">>
    /\ masked = <<"a","_","A">>

\* C14: an interaction that adds a module to the registry leaves the rows
\* stored in the deck file of every module that was registered before as
\* they were.
C14_CreateKeepsOtherDecks ==
    [][config_file'.entries # config_file.entries =>
         \A i \in 1..Len(config_file.entries) :
            LET f == config_file.entries[i].file
            IN  load_data(files'[f]).rows = load_data(files[f]).rows]_vars

\* the rows of a frame as a deck file stores them
Content(df) == [i \in 1..Len(df.rows) |-> FileRow(df.rows[i].word,
                                                  df.rows[i].status)]

\* C15: after every interaction the rows and statuses of the frame are those
\* load_data reads from the deck file of the active module.
C15_FrameEqualsActiveFile ==
    Content(vocab_df) = Content(load_data(files[CurrentFile]))

\* C16: an interaction that leaves the toast "Status gespeichert: <status>"
\* changed the status of the row at current_idx and nothing else: the frame
\* has the same rows in the same order, every other row and the other
\* columns of the rated row are as before, and current_idx, the history, the
\* revealed solution and the active module are unchanged.
C16_ReviewChangesOneStatus ==
    [][\A status \in {"Red", "Green"} :
         message' = Toast(status) =>
           /\ Len(vocab_df'.rows) = Len(vocab_df.rows)
           /\ \A p \in 1..Len(vocab_df.rows) :
                IF vocab_df.rows[p].label = current_idx
                THEN vocab_df'.rows[p]
                       = [vocab_df.rows[p] EXCEPT !.status = status]
                ELSE vocab_df'.rows[p] = vocab_df.rows[p]
           /\ current_idx' = current_idx
           /\ history' = history
           /\ show_solution /\ show_solution'
           /\ current_dataset_name' = current_dataset_name
           /\ loaded_file' = loaded_file]_vars

\* a card of a deck of two was rated "Einfach" after a "Nächste Karte": the
\* other card keeps another status, the solution stays revealed and the
\* history is kept
C16_Witness ==
    /\ message = Toast("Green")
    /\ Len(vocab_df.rows) = 2
    /\ current_idx \in Labels(vocab_df)
    /\ StatusAt(vocab_df, current_idx) = "Green"
    /\ \E l \in Labels(vocab_df) : StatusAt(vocab_df, l) # "Green"
    /\ history # <<>>
    /\ show_solution

\* C17: every index in the history is a label of the frame, also after
\* "Liste Speichern" stored a frame with rows deleted.
C17_HistoryIndicesValid ==
    \A i \in 1..Len(history) : history[i] \in Labels(vocab_df)

\* C18: a status is recorded only while the solution is revealed and the deck
\* is not empty; every "Nächste Karte", every "Zurück" that pops the history
\* and every change of the active module leaves the solution hidden; and the
\* solution becomes revealed only by an interaction that changes nothing
\* else (a reveal or an answer submitted), so a reveal lies between each of
\* those and the next recorded status.
C18_ReviewNeedsReveal ==
    [][/\ message' \in {Toast("Red"), Toast("Green")} =>
            (show_solution /\ ~Empty(vocab_df))
       /\ (history' # history \/ current_dataset_name' # current_dataset_name)
            => ~show_solution'
       /\ (~show_solution /\ show_solution') =>
            UNCHANGED <<config_file, files, current_dataset_name, vocab_df,
                        loaded_file, history, current_idx>>]_vars

\* C19 as stated: the last interaction changed the frame at most once and
\* wrote at most one file.
C19_OneMutationOneWrite ==
    /\ effects.mutations <= 1
    /\ Len(effects.written) <= 1

\* C19 amended: the last interaction changed the frame at most once; it
\* wrote at most one file, or it created the active module, the last entry
\* of the registry, and wrote two: the module's deck file, then the registry.
C19_OneMutationOneWriteButCreate ==
    /\ effects.mutations <= 1
    /\ \/ Len(effects.written) <= 1
       \/ /\ effects.written = <<CurrentFile, CONFIG_FILE>>
          /\ Last(config_file.entries)
               = Entry(current_dataset_name, CurrentFile)
          /\ files[CurrentFile] = create_new_module_file

\* the module "A!" was just created: two files written and the empty deck
\* loaded
C19_Witness ==
    /\ effects.written = <<(<<"a">> \o CustomSuffix), CONFIG_FILE>>
    /\ effects.mutations = 1
    /\ current_dataset_name = <<"A","!">>

====
